---- MODULE Spec2Model ----
(***************************************************************************)
(* Model of Waiting::next, the container start transition of the krustlet  *)
(* WASI provider (crates/wasi-provider/src/states/container/waiting.rs).   *)
(*                                                                         *)
(* Each invocation of the transition is a process.  An action is the code  *)
(* between two suspension points (.await) of the async fn.  Strings are    *)
(* sequences of tokens; a formatted message is the sequence of the pieces  *)
(* format! concatenates.                                                   *)
(***************************************************************************)
EXTENDS Integers, Sequences, FiniteSets, TLC

(***************************************************************************)
(* Bounds and universe                                                     *)
(***************************************************************************)
NumInv == 3

Invocations == 1..NumInv

Pods == {"p1", "p2"}

Names == {"c1", "c2"}

\* Option: None is the empty sequence, Some(v) the sequence of v alone
None == <<>>

Some(v) == <<v>>

Unwrap(o) == o[1]

\* PodKey::from(&state.pod)
PodKey(p) == <<"default", p>>

MAX_CONNCURRENT_REQUESTS_ANNOTATION_KEY == "alpha.wasi.krustlet.dev/max-concurrent-requests"

ALLOWED_DOMAINS_ANNOTATION_KEY == "alpha.wasi.krustlet.dev/allowed-domains"

ChannelCapacity == 8

(***************************************************************************)
(* Finite maps (HashMap): functions whose DOMAIN is the key set            *)
(***************************************************************************)
EmptyMap == [x \in {} |-> None]

MapRemove(m, k) == [x \in DOMAIN m \ {k} |-> m[x]]

MapInsert(m, k, v) == [x \in DOMAIN m \cup {k} |-> IF x = k THEN v ELSE m[x]]

\* HashMap::extend: entries of o replace entries of m with the same key
MapExtend(m, o) == [x \in DOMAIN m \cup DOMAIN o |-> IF x \in DOMAIN o THEN o[x] ELSE m[x]]

Range(s) == {s[k] : k \in DOMAIN s}

(***************************************************************************)
(* Paths (PathBuf): absolute flag and components                           *)
(***************************************************************************)
Path(abs, comps) == [abs |-> abs, comps |-> comps]

\* PathBuf::push: an absolute argument replaces the path, a relative one is appended
PathPush(p, q) == IF q.abs THEN q ELSE Path(p.abs, p.comps \o q.comps)

(***************************************************************************)
(* Results (anyhow::Result, Result<T, E>)                                  *)
(***************************************************************************)
Ok(v) == [ok |-> TRUE, val |-> v, err |-> <<>>]

Err(e) == [ok |-> FALSE, val |-> None, err |-> e]

(***************************************************************************)
(* volume_path_map                                                         *)
(***************************************************************************)
\* the closure volume_path_map applies to one volume mount
MapVolumeMount(container, volumes, vm) ==
    IF vm.name \notin DOMAIN volumes
    THEN Err(<<"no volume with the name of", vm.name, "found for container", container.name>>)
    ELSE IF volumes[vm.name].path = None
    THEN Err(<<"Volume", vm.name, "has not been mounted yet">>)
    ELSE LET guest_path == IF vm.sub_path = None
                           THEN vm.mount_path
                           ELSE PathPush(vm.mount_path, Unwrap(vm.sub_path))
         IN Ok(<<Unwrap(volumes[vm.name].path), Some(guest_path)>>)

\* the mounts that resolve collected, the others skipped (filter_map)
RECURSIVE CollectVolumes_skip(_, _, _, _)
CollectVolumes_skip(container, volumes, k, acc) ==
    IF k > Len(container.volume_mounts)
    THEN Ok(acc)
    ELSE LET r == MapVolumeMount(container, volumes, container.volume_mounts[k])
         IN CollectVolumes_skip(container, volumes, k + 1,
                                IF r.ok THEN MapInsert(acc, r.val[1], r.val[2]) ELSE acc)

\* collect::<Result<HashMap<..>>>: mounts are taken in order, the first error
\* ends the collection, a repeated host path keeps the last guest path
RECURSIVE CollectVolumes(_, _, _, _)
CollectVolumes(container, volumes, k, acc) ==
    IF k > Len(container.volume_mounts)
    THEN Ok(acc)
    ELSE LET r == MapVolumeMount(container, volumes, container.volume_mounts[k])
         IN IF r.ok
            THEN CollectVolumes(container, volumes, k + 1, MapInsert(acc, r.val[1], r.val[2]))
            ELSE r

volume_path_map(container, volumes) == CollectVolumes(container, volumes, 1, EmptyMap)

(***************************************************************************)
(* Annotation values and their parsers                                     *)
(***************************************************************************)
Digits == {"0", "1", "2", "3", "4", "5", "6", "7", "8", "9"}

DigitVal(c) ==
    CASE c = "0" -> 0 [] c = "1" -> 1 [] c = "2" -> 2 [] c = "3" -> 3 [] c = "4" -> 4
      [] c = "5" -> 5 [] c = "6" -> 6 [] c = "7" -> 7 [] c = "8" -> 8 [] c = "9" -> 9

\* the digits of s from position k on, accumulated in base 10; the checked
\* multiply and add overflow above 4294967295 = 429496729 * 10 + 5
RECURSIVE ParseDigits(_, _, _)
ParseDigits(s, k, acc) ==
    IF k > Len(s)
    THEN Ok(acc)
    ELSE IF s[k] \notin Digits
    THEN Err(<<"invalid digit found in string">>)
    ELSE IF acc > 429496729 \/ (acc = 429496729 /\ DigitVal(s[k]) > 5)
    THEN Err(<<"number too large to fit in target type">>)
    ELSE ParseDigits(s, k + 1, acc * 10 + DigitVal(s[k]))

\* annotation.parse() into the unsigned max_concurrent_requests field:
\* an optional leading +, then at least one decimal digit, nothing else
ParseMaxConcurrentRequests(s) ==
    IF Len(s) = 0
    THEN Err(<<"cannot parse integer from empty string">>)
    ELSE IF s[1] = "+"
    THEN IF Len(s) = 1
         THEN Err(<<"invalid digit found in string">>)
         ELSE ParseDigits(s, 2, 0)
    ELSE ParseDigits(s, 1, 0)

\* JSON string literals of the token alphabet
Domains == {"a.com", "b.org"}

\* the elements of a JSON array after its opening bracket; first is TRUE
\* where the closing bracket may come instead of an element
RECURSIVE ParseElements(_, _, _, _)
ParseElements(t, k, acc, first) ==
    IF k > Len(t)
    THEN Err(<<"EOF while parsing a list">>)
    ELSE IF first /\ t[k] = "]"
    THEN IF k = Len(t) THEN Ok(acc) ELSE Err(<<"trailing characters">>)
    ELSE IF t[k] \notin Domains
    THEN Err(<<"invalid type, expected a string">>)
    ELSE IF k + 1 > Len(t)
    THEN Err(<<"EOF while parsing a list">>)
    ELSE IF t[k + 1] = "]"
    THEN IF k + 1 = Len(t) THEN Ok(Append(acc, t[k])) ELSE Err(<<"trailing characters">>)
    ELSE IF t[k + 1] = ","
    THEN ParseElements(t, k + 2, Append(acc, t[k]), FALSE)
    ELSE Err(<<"expected comma or closing bracket">>)

\* serde_json::from_str into the list-of-strings allowed_domains field
ParseAllowedDomains(t) ==
    IF Len(t) = 0
    THEN Err(<<"EOF while parsing a value">>)
    ELSE IF t[1] = "["
    THEN ParseElements(t, 2, <<>>, TRUE)
    ELSE IF t[1] \in Domains \cup Digits
    THEN Err(<<"invalid type, expected a sequence">>)
    ELSE Err(<<"expected value">>)

(***************************************************************************)
(* The pods the transition is invoked for                                  *)
(***************************************************************************)
HostData == Path(TRUE, <<"host", "data">>)

HostCache == Path(TRUE, <<"host", "cache">>)

\* container.latest(): the container as declared by the pod
Manifest(p, name) ==
    [name |-> name,
     args |-> <<"serve", name>>,
     volume_mounts |->
        IF name = "c1"
        THEN <<[name |-> "data", mount_path |-> Path(TRUE, <<"data">>),
                sub_path |-> Some(Path(FALSE, <<"sub">>))],
               [name |-> "cache", mount_path |-> Path(TRUE, <<"cache">>),
                sub_path |-> None]>>
        ELSE <<>>]

Mounted == [data |-> [path |-> Some(HostData)], cache |-> [path |-> Some(HostCache)]]

\* run_context.volumes as the volume mounting left it: both volumes mounted,
\* the second one not yet mounted, or the second one not among the volumes
VolumeStates ==
    {Mounted,
     [data |-> [path |-> Some(HostData)], cache |-> [path |-> None]],
     [data |-> [path |-> Some(HostData)]]}

AllowedDomainsValues ==
    {<<"[", "a.com", ",", "b.org", "]">>, <<"a.com">>, <<"[", "a.com", ",", "]">>}

MaxConcurrentRequestsValues ==
    {<<"1", "0">>, <<"t", "e", "n">>, <<"-", "1">>}

\* state.pod.annotations(): each of the two keys absent or set to a value
AnnotationStates ==
    {MapExtend(a, m) :
        a \in {EmptyMap} \cup
              {[k \in {ALLOWED_DOMAINS_ANNOTATION_KEY} |-> v] : v \in AllowedDomainsValues},
        m \in {EmptyMap} \cup
              {[k \in {MAX_CONNCURRENT_REQUESTS_ANNOTATION_KEY} |-> v] :
                    v \in MaxConcurrentRequestsValues}}

\* run_context.modules as populated before the containers start
InitModules ==
    [p \in Pods |->
        IF p = "p1"
        THEN [n \in Names |-> <<"wasm", p, n>>]
        ELSE [n \in {"c2"} |-> <<"wasm", p, n>>]]

\* run_context.env_vars as populated before the containers start
InitEnvVars ==
    [p \in Pods |->
        IF p = "p1"
        THEN [n \in {"c1"} |-> [k \in {"K1", "K2"} |-> <<"override", k>>]]
        ELSE EmptyMap]

\* kubelet::provider::env_vars: the environment the pod spec declares
BaseEnv(p, name) == [k \in {"K1", "K3"} |-> <<"base", k, name>>]

LogPath == Path(TRUE, <<"var", "log">>)

\* The pod and container each invocation of the transition is made for:
\* either all for containers c1 and c2 of pod p1, in turn (so that a container
\* is invoked more than once), or for c1 and c2 of p1 and then containers of p2
InvokedFor ==
    {[i \in Invocations |-> <<"p1", IF i % 2 = 1 THEN "c1" ELSE "c2">>],
     [i \in Invocations |-> IF i <= 2 THEN <<"p1", IF i = 1 THEN "c1" ELSE "c2">>
                            ELSE <<"p2", IF i % 2 = 1 THEN "c2" ELSE "c1">>]}

(***************************************************************************)
(* State                                                                   *)
(***************************************************************************)
VARIABLES
    invoked,          \* the (pod, container name) each invocation is made for
    pc,               \* position of each invocation in Waiting::next
    container,        \* the local container = container.latest()
    local,            \* the other locals of each invocation
    outcome,          \* the Transition each invocation returned
    modules,          \* run_context.modules of each pod
    env_vars,         \* run_context.env_vars of each pod
    volumes,          \* run_context.volumes of each pod
    annotations,      \* state.pod.annotations() of each pod
    handles,          \* provider_state.handles
    sharedReaders,    \* holders of a read guard of shared
    sharedWriter,     \* holder of the write guard of shared, 0 if none
    handlesWriter,    \* holder of the write guard of handles, 0 if none
    rcWriter,         \* per pod, holder of the write guard of run_context
    runtime,          \* the arguments WasiRuntime::new was called with
    container_handle, \* the handle runtime.start() returned
    newResults,         \* the results of the calls of WasiRuntime::new (TRUE is Ok)
    startResults,       \* the results of the calls of runtime.start (TRUE is Ok)
    lateHandoff,      \* the module was already taken when the handoff began
    consumed,         \* per (pod, name), the invocations that took the module
    envTaken,         \* per (pod, name), the invocations that took the env entry
    created,          \* per pod, the invocations that created its handles entry
    registered,       \* per pod, the invocations in the order they registered
    steps,            \* history: per invocation, the operations of the body it has run, in order
    resolver,         \* a call of volume_path_map: its arguments and its result
    revision          \* per pod, the number of updates of the pod spec so far

vars == <<invoked, pc, container, local, outcome, modules, env_vars, volumes, annotations,
          handles, sharedReaders, sharedWriter, handlesWriter, rcWriter, runtime,
          container_handle, newResults, startResults, lateHandoff, consumed, envTaken,
          created, registered, resolver, revision, steps>>

NoLocal ==
    [log_path |-> None, module_data |-> None, container_volumes |-> None,
     container_envs |-> None, env |-> None, args |-> None, name |-> None,
     tx |-> None, rx |-> None, wasi_http_config |-> None]

NoOutcome == [state |-> "Waiting", message |-> <<>>, failed |-> FALSE, rx |-> None]

PodContainers == Pods \X Names

\* state.pod of an invocation
InvPod(i) == invoked[i][1]

\* the name of the container whose manifest an invocation is handed
InvName(i) == invoked[i][2]

\* state.container_key
ContainerKey(i) == <<"app", InvName(i)>>

\* no call of volume_path_map on its own
NoCall == [container |-> None, volumes |-> None, result |-> None]

\* the state when the transitions are invoked, the annotations of pod p1
\* being one of annotationStates
InitWith(annotationStates) ==
    /\ invoked \in InvokedFor
    /\ pc = [i \in Invocations |-> "start"]
    /\ container = [i \in Invocations |-> None]
    /\ local = [i \in Invocations |-> NoLocal]
    /\ outcome = [i \in Invocations |-> NoOutcome]
    /\ modules = InitModules
    /\ env_vars = InitEnvVars
    /\ \E v \in VolumeStates :
          volumes = [p \in Pods |-> IF p = "p1" THEN v ELSE Mounted]
    /\ \E a \in annotationStates :
          annotations = [p \in Pods |-> IF p = "p1" THEN a ELSE EmptyMap]
    /\ handles = EmptyMap
    /\ sharedReaders = {}
    /\ sharedWriter = 0
    /\ handlesWriter = 0
    /\ rcWriter = [p \in Pods |-> 0]
    /\ runtime = [i \in Invocations |-> None]
    /\ container_handle = [i \in Invocations |-> None]
    /\ newResults = [i \in Invocations |-> <<>>]
    /\ startResults = [i \in Invocations |-> <<>>]
    /\ lateHandoff = [i \in Invocations |-> FALSE]
    /\ consumed = [pn \in PodContainers |-> <<>>]
    /\ envTaken = [pn \in PodContainers |-> <<>>]
    /\ created = [p \in Pods |-> <<>>]
    /\ registered = [p \in Pods |-> <<>>]
    /\ revision = [p \in Pods |-> 0]
    /\ steps = [i \in Invocations |-> <<>>]

Init == InitWith(AnnotationStates) /\ resolver = NoCall

(***************************************************************************)
(* Next states of the container state machine                              *)
(***************************************************************************)
\* Terminated::new(message, false)
Fail_notError(message) ==
    [state |-> "Terminated", message |-> message, failed |-> FALSE, rx |-> None]

\* Transition::next(self, Terminated::new(message, true))
Fail(message) == [state |-> "Terminated", message |-> message, failed |-> TRUE, rx |-> None]

\* Transition::next(self, Running::new(rx))
RunningNew(rx) == [state |-> "Running", message |-> <<>>, failed |-> FALSE, rx |-> Some(rx)]

ModuleDataMissing == "failed load module data from run context."

VolumeMapFailed == "failed to map volume paths:"

AnnotationParseFailed == "Error parsing annotation from key"

ConstructFailed == "failed to construct runtime:"

StartFailed == "failed to start:"

\* format!("Pod {} container {} failed load module data from run context.", ..)
ModuleDataMessage(pod, name) == <<"Pod", pod, "container", name, ModuleDataMissing>>

\* format!("Pod {} container {} failed to map volume paths: {:?}", ..)
VolumeMessage(pod, name, e) == <<"Pod", pod, "container", name, VolumeMapFailed>> \o e

\* format!("Error parsing annotation from key {:?}: {}", KEY, parse_err)
AnnotationMessage(key, e) == <<AnnotationParseFailed, key, ":">> \o e

\* format!("Pod {} container {} failed to construct runtime: {:?}", ..)
ConstructMessage(pod, name, e) == <<"Pod", pod, "container", name, ConstructFailed>> \o e

\* format!("Pod {} container {} failed to start: {:?}", ..)
StartMessage(pod, name, e) == <<"Pod", pod, "container", name, StartFailed>> \o e

\* the errors of the sandbox, as the wasi runtime reports them
RuntimeError == <<"runtime error">>

Return(i, transition) ==
    /\ outcome' = [outcome EXCEPT ![i] = transition]
    /\ pc' = [pc EXCEPT ![i] = "done"]

(***************************************************************************)
(* Steps of Waiting::next                                                  *)
(***************************************************************************)
\* the container as revision rev of the pod spec declares it: the revisions
\* differ in the arguments
Revised(c, rev) == IF rev = 0 THEN c ELSE [c EXCEPT !.args = Append(@, rev)]

\* Manifest::latest(): the container of the latest revision of the pod spec
LatestOf(p, name) == Revised(Manifest(p, name), revision[p])

\* let container = container.latest();
Latest(i) ==
    /\ pc[i] = "start"
    /\ container' = [container EXCEPT ![i] = Some(LatestOf(InvPod(i), InvName(i)))]
    /\ pc' = [pc EXCEPT ![i] = "read_shared"]
    /\ UNCHANGED <<steps, revision, resolver, invoked, local, outcome, modules, env_vars, volumes, annotations, handles,
                   sharedReaders, sharedWriter, handlesWriter, rcWriter, runtime,
                   container_handle, newResults, startResults, lateHandoff, consumed,
                   envTaken, created, registered>>

\* shared.read().await
SharedRead(i) ==
    /\ pc[i] = "read_shared"
    /\ sharedWriter = 0
    /\ sharedReaders' = sharedReaders \cup {i}
    /\ pc' = [pc EXCEPT ![i] = "provider_state"]
    /\ UNCHANGED <<steps, revision, resolver, invoked, container, local, outcome, modules, env_vars, volumes, annotations,
                   handles, sharedWriter, handlesWriter, rcWriter, runtime,
                   container_handle, newResults, startResults, lateHandoff, consumed,
                   envTaken, created, registered>>

\* the read guard is kept to the end of the body
DropSharedRead_keep(readers, i) == readers

\* the shared read guard is dropped at the end of its block
DropSharedRead(readers, i) == readers \ {i}

\* (provider_state.client(), provider_state.log_path.clone()), guard dropped
ProviderStateRead(i) ==
    /\ pc[i] = "provider_state"
    /\ local' = [local EXCEPT ![i].log_path = Some(LogPath)]
    /\ sharedReaders' = DropSharedRead(sharedReaders, i)
    /\ pc' = [pc EXCEPT ![i] = "run_context"]
    /\ UNCHANGED <<steps, revision, resolver, invoked, container, outcome, modules, env_vars, volumes, annotations,
                   handles, sharedWriter, handlesWriter, rcWriter, runtime,
                   container_handle, newResults, startResults, lateHandoff, consumed,
                   envTaken, created, registered>>

\* state.run_context.write().await
RunContextWrite(i) ==
    /\ pc[i] = "run_context"
    /\ rcWriter[InvPod(i)] = 0
    /\ rcWriter' = [rcWriter EXCEPT ![InvPod(i)] = i]
    /\ pc' = [pc EXCEPT ![i] = "handoff"]
    /\ UNCHANGED <<steps, revision, resolver, invoked, container, local, outcome, modules, env_vars, volumes, annotations,
                   handles, sharedReaders, sharedWriter, handlesWriter, runtime,
                   container_handle, newResults, startResults, lateHandoff, consumed,
                   envTaken, created, registered>>

\* the entry read with get, not taken with remove
RemoveModule_peek(m, name) == m

\* run_context.modules.remove(container.name()): the map afterwards
RemoveModule(m, name) == MapRemove(m, name)

\* the whole map is taken (drain), not the entry of the container
RemoveEnvVars_clear(m, name) == EmptyMap

\* run_context.env_vars.remove(container.name()): the map afterwards
RemoveEnvVars(m, name) == MapRemove(m, name)

\* .unwrap_or_default() of the removed env_vars entry
TakenEnvVars(m, name) == IF name \in DOMAIN m THEN m[name] ELSE EmptyMap

\* the guard is never dropped (mem::forget)
DropRunContext_leak(rw, p) == rw

\* the run_context write guard is dropped at the end of the block or at return
DropRunContext(rw, p) == [rw EXCEPT ![p] = 0]

\* the block under the run_context write guard
Handoff(i) ==
    /\ pc[i] = "handoff"
    /\ LET p == InvPod(i)
           c == Unwrap(container[i])
           pn == <<p, c.name>>
       IN /\ lateHandoff' = [lateHandoff EXCEPT ![i] = consumed[pn] # <<>>]
          /\ rcWriter' = DropRunContext(rcWriter, p)
          /\ IF c.name \notin DOMAIN modules[p]
             THEN /\ Return(i, Fail(ModuleDataMessage(p, c.name)))
                  /\ steps' = [steps EXCEPT ![i] = @ \o <<"modules.remove">>]
                  /\ UNCHANGED <<modules, env_vars, local, consumed, envTaken>>
             ELSE /\ modules' = [modules EXCEPT ![p] = RemoveModule(@, c.name)]
                  /\ consumed' = [consumed EXCEPT ![pn] = Append(@, i)]
                  /\ LET r == volume_path_map(c, volumes[p])
                     IN IF r.ok
                        THEN /\ env_vars' = [env_vars EXCEPT ![p] = RemoveEnvVars(@, c.name)]
                             /\ envTaken' = IF c.name \in DOMAIN env_vars[p]
                                            THEN [envTaken EXCEPT ![pn] = Append(@, i)]
                                            ELSE envTaken
                             /\ local' = [local EXCEPT
                                   ![i].module_data = Some(modules[p][c.name]),
                                   ![i].container_volumes = Some(r.val),
                                   ![i].container_envs = Some(TakenEnvVars(env_vars[p], c.name))]
                             /\ pc' = [pc EXCEPT ![i] = "env"]
                             /\ steps' = [steps EXCEPT ![i] =
                                   @ \o <<"modules.remove", "volume_path_map",
                                          "env_vars.remove">>]
                             /\ UNCHANGED outcome
                        ELSE /\ Return(i, Fail(VolumeMessage(p, c.name, r.err)))
                             /\ steps' = [steps EXCEPT ![i] =
                                   @ \o <<"modules.remove", "volume_path_map">>]
                             /\ UNCHANGED <<env_vars, local, envTaken>>
    /\ UNCHANGED <<revision, resolver, invoked, container, volumes, annotations, handles, sharedReaders,
                   sharedWriter, handlesWriter, runtime, container_handle, newResults,
                   startResults, created, registered>>

\* WasiHttpConfig::default()
WasiHttpConfigDefault == [allowed_domains |-> None, max_concurrent_requests |-> None]

\* the allowed-domains annotation applied to the configuration
WithAllowedDomains(config, ann) ==
    IF ALLOWED_DOMAINS_ANNOTATION_KEY \notin DOMAIN ann
    THEN Ok(config)
    ELSE LET r == ParseAllowedDomains(ann[ALLOWED_DOMAINS_ANNOTATION_KEY])
         IN IF r.ok
            THEN Ok([config EXCEPT !.allowed_domains = Some(r.val)])
            ELSE Err(AnnotationMessage(ALLOWED_DOMAINS_ANNOTATION_KEY, r.err))

\* a value that does not parse leaves the default (if let Ok(..) = parse)
WithMaxConcurrentRequests_ignore(config, ann) ==
    IF MAX_CONNCURRENT_REQUESTS_ANNOTATION_KEY \notin DOMAIN ann
    THEN Ok(config)
    ELSE LET r == ParseMaxConcurrentRequests(ann[MAX_CONNCURRENT_REQUESTS_ANNOTATION_KEY])
         IN IF r.ok
            THEN Ok([config EXCEPT !.max_concurrent_requests = Some(r.val)])
            ELSE Ok(config)

\* the field set on a new default configuration, not on the one built so far
WithMaxConcurrentRequests_reset(config, ann) ==
    IF MAX_CONNCURRENT_REQUESTS_ANNOTATION_KEY \notin DOMAIN ann
    THEN Ok(config)
    ELSE LET r == ParseMaxConcurrentRequests(ann[MAX_CONNCURRENT_REQUESTS_ANNOTATION_KEY])
         IN IF r.ok
            THEN Ok([WasiHttpConfigDefault EXCEPT !.max_concurrent_requests = Some(r.val)])
            ELSE Err(AnnotationMessage(MAX_CONNCURRENT_REQUESTS_ANNOTATION_KEY, r.err))

\* the max-concurrent-requests annotation applied to the configuration
WithMaxConcurrentRequests(config, ann) ==
    IF MAX_CONNCURRENT_REQUESTS_ANNOTATION_KEY \notin DOMAIN ann
    THEN Ok(config)
    ELSE LET r == ParseMaxConcurrentRequests(ann[MAX_CONNCURRENT_REQUESTS_ANNOTATION_KEY])
         IN IF r.ok
            THEN Ok([config EXCEPT !.max_concurrent_requests = Some(r.val)])
            ELSE Err(AnnotationMessage(MAX_CONNCURRENT_REQUESTS_ANNOTATION_KEY, r.err))

\* the two annotation blocks in the other order
WasiHttpConfigOf_maxFirst(ann) ==
    LET m == WithMaxConcurrentRequests(WasiHttpConfigDefault, ann)
    IN IF m.ok THEN WithAllowedDomains(m.val, ann) ELSE m

\* the configuration the two annotation blocks build, or the message of the
\* first one that fails
WasiHttpConfigOf(ann) ==
    LET a == WithAllowedDomains(WasiHttpConfigDefault, ann)
    IN IF a.ok THEN WithMaxConcurrentRequests(a.val, ann) ELSE a

\* mpsc::channel(8): the two ends of a new channel
Sender(i) == [chan |-> i, capacity |-> ChannelCapacity, end |-> "tx"]

Receiver(i) == [chan |-> i, capacity |-> ChannelCapacity, end |-> "rx"]

\* format!("{}:{}:{}", namespace, pod name, container name)
RuntimeName(p, name) == <<"default", ":", p, ":", name>>

\* the arguments read from the manifest again
ContainerArgs_reread(i) == LatestOf(InvPod(i), InvName(i)).args

\* container.args().clone()
ContainerArgs(i) == Unwrap(container[i]).args

\* the base environment kept where both have a key (or_insert)
ExtendEnv_baseWins(env, container_envs) == MapExtend(container_envs, env)

\* env.extend(container_envs)
ExtendEnv(env, container_envs) == MapExtend(env, container_envs)

\* env_vars(..).await and the code up to the call of WasiRuntime::new
EnvAndConfig(i) ==
    /\ pc[i] = "env"
    /\ steps' = [steps EXCEPT ![i] = @ \o <<"http_config">>]
    /\ LET p == InvPod(i)
           c == Unwrap(container[i])
           env == ExtendEnv(BaseEnv(p, c.name), Unwrap(local[i].container_envs))
           config == WasiHttpConfigOf(annotations[p])
       IN IF config.ok
          THEN /\ local' = [local EXCEPT ![i].env = Some(env),
                                         ![i].args = Some(ContainerArgs(i)),
                                         ![i].tx = Some(Sender(i)),
                                         ![i].rx = Some(Receiver(i)),
                                         ![i].name = Some(RuntimeName(p, c.name)),
                                         ![i].wasi_http_config = Some(config.val)]
               /\ pc' = [pc EXCEPT ![i] = "construct"]
               /\ UNCHANGED outcome
          ELSE /\ Return(i, Fail(config.err))
               /\ UNCHANGED local
    /\ UNCHANGED <<revision, resolver, invoked, container, modules, env_vars, volumes, annotations, handles,
                   sharedReaders, sharedWriter, handlesWriter, rcWriter, runtime,
                   container_handle, newResults, startResults, lateHandoff, consumed,
                   envTaken, created, registered>>

\* the arguments of WasiRuntime::new, in its parameter order
RuntimeArguments(l) ==
    [name |-> Unwrap(l.name), module_data |-> Unwrap(l.module_data),
     env |-> Unwrap(l.env), args |-> Unwrap(l.args),
     dirs |-> Unwrap(l.container_volumes), log_dir |-> Unwrap(l.log_path),
     status_sender |-> Unwrap(l.tx), http_config |-> Unwrap(l.wasi_http_config)]

\* WasiRuntime::new(..).await
Construct(i) ==
    /\ pc[i] = "construct"
    /\ steps' = [steps EXCEPT ![i] = @ \o <<"new">>]
    /\ runtime' = [runtime EXCEPT ![i] = Some(RuntimeArguments(local[i]))]
    /\ \E ok \in BOOLEAN :
          /\ newResults' = [newResults EXCEPT ![i] = Append(@, ok)]
          /\ IF ok
                THEN /\ pc' = [pc EXCEPT ![i] = "starting"]
                  /\ UNCHANGED outcome
             ELSE Return(i, Fail(ConstructMessage(InvPod(i), Unwrap(container[i]).name,
                                                  RuntimeError)))
    /\ UNCHANGED <<revision, resolver, invoked, container, local, modules, env_vars, volumes, annotations, handles,
                   sharedReaders, sharedWriter, handlesWriter, rcWriter,
                   container_handle, startResults, lateHandoff, consumed, envTaken,
                   created, registered>>

\* the result of start not looked at: the body goes on to the registry
Start_ignoreError(i) ==
    /\ pc[i] = "starting"
    /\ steps' = [steps EXCEPT ![i] = @ \o <<"start">>]
    /\ \E ok \in BOOLEAN : startResults' = [startResults EXCEPT ![i] = Append(@, ok)]
    /\ container_handle' = [container_handle EXCEPT
           ![i] = Some([runtime |-> Unwrap(runtime[i]).name, started_by |-> i])]
    /\ pc' = [pc EXCEPT ![i] = "shared_write"]
    /\ UNCHANGED <<revision, resolver, invoked, container, local, outcome, modules, env_vars,
                   volumes, annotations, handles, sharedReaders, sharedWriter,
                   handlesWriter, rcWriter, runtime, newResults, lateHandoff, consumed,
                   envTaken, created, registered>>

\* runtime.start().await
Start(i) ==
    /\ pc[i] = "starting"
    /\ steps' = [steps EXCEPT ![i] = @ \o <<"start">>]
    /\ \E ok \in BOOLEAN :
          /\ startResults' = [startResults EXCEPT ![i] = Append(@, ok)]
          /\ IF ok
             THEN /\ container_handle' = [container_handle EXCEPT
                         ![i] = Some([runtime |-> Unwrap(runtime[i]).name, started_by |-> i])]
                  /\ pc' = [pc EXCEPT ![i] = "shared_write"]
                  /\ UNCHANGED outcome
             ELSE /\ Return(i, Fail(StartMessage(InvPod(i), Unwrap(container[i]).name,
                                                 RuntimeError)))
                  /\ UNCHANGED container_handle
    /\ UNCHANGED <<revision, resolver, invoked, container, local, modules, env_vars, volumes, annotations, handles,
                   sharedReaders, sharedWriter, handlesWriter, rcWriter, runtime,
                   newResults, lateHandoff, consumed, envTaken, created, registered>>

\* shared.write().await
SharedWrite(i) ==
    /\ pc[i] = "shared_write"
    /\ sharedWriter = 0
    /\ sharedReaders = {}
    /\ sharedWriter' = i
    /\ pc' = [pc EXCEPT ![i] = "handles_write"]
    /\ UNCHANGED <<steps, revision, resolver, invoked, container, local, outcome, modules, env_vars, volumes, annotations,
                   handles, sharedReaders, handlesWriter, rcWriter, runtime,
                   container_handle, newResults, startResults, lateHandoff, consumed,
                   envTaken, created, registered>>

\* provider_state.handles.write().await
HandlesWrite(i) ==
    /\ pc[i] = "handles_write"
    /\ handlesWriter = 0
    /\ handlesWriter' = i
    /\ pc' = [pc EXCEPT ![i] = "entry"]
    /\ UNCHANGED <<steps, revision, resolver, invoked, container, local, outcome, modules, env_vars, volumes, annotations,
                   handles, sharedReaders, sharedWriter, rcWriter, runtime,
                   container_handle, newResults, startResults, lateHandoff, consumed,
                   envTaken, created, registered>>

\* Arc::new(PodHandle::new(HashMap::new(), state.pod.clone()))
PodHandleNew(p) == [container_handles |-> EmptyMap, pod |-> p]

\* handles_writer.insert(pod_key, ..), which replaces an entry already there
EntryOrInsertWith_insert(h, pod_key, p) == MapInsert(h, pod_key, PodHandleNew(p))

\* handles_writer.entry(pod_key).or_insert_with(..): the map afterwards
EntryOrInsertWith(h, pod_key, p) ==
    IF pod_key \in DOMAIN h THEN h ELSE MapInsert(h, pod_key, PodHandleNew(p))

\* handles_writer.entry(pod_key).or_insert_with(..)
HandlesEntry(i) ==
    /\ pc[i] = "entry"
    /\ steps' = [steps EXCEPT ![i] = @ \o <<"entry">>]
    /\ LET p == InvPod(i)
       IN /\ handles' = EntryOrInsertWith(handles, PodKey(p), p)
          /\ created' = IF handles' # handles \/ PodKey(p) \notin DOMAIN handles
                        THEN [created EXCEPT ![p] = Append(@, i)]
                        ELSE created
          /\ registered' = [registered EXCEPT ![p] = Append(@, i)]
    /\ pc' = [pc EXCEPT ![i] = "insert"]
    /\ UNCHANGED <<revision, resolver, invoked, container, local, outcome, modules, env_vars, volumes, annotations,
                   sharedReaders, sharedWriter, handlesWriter, rcWriter, runtime,
                   container_handle, newResults, startResults, lateHandoff, consumed,
                   envTaken>>

\* the handle is not inserted
InsertHandle_drop(pod_handle, key, handle) == pod_handle

\* PodHandle::insert_container_handle: the pod handle afterwards
InsertHandle(pod_handle, key, handle) ==
    [pod_handle EXCEPT !.container_handles = MapInsert(@, key, handle)]

\* pod_handle.insert_container_handle(..).await, the two guards dropped,
\* Transition::next(self, Running::new(rx))
InsertContainerHandle(i) ==
    /\ pc[i] = "insert"
    /\ steps' = [steps EXCEPT ![i] = @ \o <<"insert_container_handle">>]
    /\ handles' = [handles EXCEPT ![PodKey(InvPod(i))] =
                      InsertHandle(@, ContainerKey(i), Unwrap(container_handle[i]))]
    /\ handlesWriter' = 0
    /\ sharedWriter' = 0
    /\ Return(i, RunningNew(Unwrap(local[i].rx)))
    /\ UNCHANGED <<revision, resolver, invoked, container, local, modules, env_vars, volumes, annotations,
                   sharedReaders, rcWriter, runtime, container_handle, newResults,
                   startResults, lateHandoff, consumed, envTaken, created, registered>>

Next ==
    \E i \in Invocations :
        \/ Latest(i)
        \/ SharedRead(i)
        \/ ProviderStateRead(i)
        \/ RunContextWrite(i)
        \/ Handoff(i)
        \/ EnvAndConfig(i)
        \/ Construct(i)
        \/ Start(i)
        \/ SharedWrite(i)
        \/ HandlesWrite(i)
        \/ HandlesEntry(i)
        \/ InsertContainerHandle(i)

Spec == Init /\ [][Next]_vars

(***************************************************************************)
(* Properties                                                              *)
(***************************************************************************)
Done(i) == pc[i] = "done"

IsRunning(i) == outcome[i].state = "Running"

IsTerminated(i) == outcome[i].state = "Terminated"

\* invocation i removed the bytecode entry of its container
Took(i) == i \in Range(consumed[invoked[i]])

\* the transition ended in Terminated with the module-data-missing failure
ModuleDataFailure(i) ==
    /\ IsTerminated(i)
    /\ outcome[i].failed
    /\ ModuleDataMissing \in Range(outcome[i].message)

\* C1: exactly-once consumption.  Among the invocations for one container at
\* most one ends in Running; an invocation whose handoff began after another
\* invocation had removed the bytecode entry ends in Terminated with the
\* module-data-missing failure whatever the volumes and annotations are; and
\* an entry once removed is never in the bytecode map again, also after the
\* invocation that removed it ended in Terminated.
ExactlyOnceConsumption ==
    /\ \A pn \in PodContainers :
          /\ Cardinality({i \in Invocations : invoked[i] = pn /\ IsRunning(i)}) <= 1
          /\ Len(consumed[pn]) <= 1
          /\ consumed[pn] # <<>> => pn[2] \notin DOMAIN modules[pn[1]]
    /\ \A i \in Invocations :
          /\ IsRunning(i) => Took(i)
          /\ Done(i) /\ lateHandoff[i] => ModuleDataFailure(i)

\* two invocations for one container: the one that removed the bytecode ended
\* in Terminated at a later step, the other began its handoff afterwards
ExactlyOnceWitness ==
    \E i, j \in Invocations :
        /\ i # j
        /\ invoked[i] = invoked[j]
        /\ Took(i) /\ Done(i) /\ IsTerminated(i)
        /\ lateHandoff[j] /\ Done(j) /\ ModuleDataFailure(j)

\* the volume mounts of the container all resolve in the run context of its pod
MountsResolve(i) ==
    \A k \in DOMAIN Manifest(InvPod(i), InvName(i)).volume_mounts :
        LET vm == Manifest(InvPod(i), InvName(i)).volume_mounts[k]
        IN /\ vm.name \in DOMAIN volumes[InvPod(i)]
           /\ volumes[InvPod(i)][vm.name].path # None

\* the key of invocation i is in the handle set of its pod with its handle
Registered(i) ==
    /\ PodKey(InvPod(i)) \in DOMAIN handles
    /\ ContainerKey(i) \in DOMAIN handles[PodKey(InvPod(i))].container_handles
    /\ container_handle[i] # None
    /\ handles[PodKey(InvPod(i))].container_handles[ContainerKey(i)]
          = Unwrap(container_handle[i])

\* the steps of the transition in order, each with whether it succeeded and
\* the message of its failure
StepResults(i) ==
    LET p == InvPod(i)
        n == InvName(i)
        a == WithAllowedDomains(WasiHttpConfigDefault, annotations[p])
        m == WithMaxConcurrentRequests(WasiHttpConfigDefault, annotations[p])
    IN <<[ok |-> Took(i), message |-> ModuleDataMessage(p, n)],
         [ok |-> MountsResolve(i),
          message |-> VolumeMessage(p, n, volume_path_map(Manifest(p, n), volumes[p]).err)],
         [ok |-> a.ok, message |-> a.err],
         [ok |-> m.ok, message |-> m.err],
         [ok |-> newResults[i] = <<TRUE>>, message |-> ConstructMessage(p, n, RuntimeError)],
         [ok |-> startResults[i] = <<TRUE>>, message |-> StartMessage(p, n, RuntimeError)],
         [ok |-> Registered(i), message |-> <<>>]>>

\* the first step that did not succeed, 0 if all did
RECURSIVE FirstFailure(_, _)
FirstFailure(r, k) ==
    IF k > Len(r) THEN 0 ELSE IF ~r[k].ok THEN k ELSE FirstFailure(r, k + 1)

\* C2: a transition that returned is Running, and then handoff, volume
\* resolution, both annotation checks, construction, start and registration
\* all succeeded, or it is Terminated with the error flag set and the message
\* of the first step that failed, the steps after it not having run.  No
\* sandbox call is made twice, and before it returns a transition has no
\* outcome.
TwoOutcomes ==
    \A i \in Invocations :
        LET r == StepResults(i)
            f == FirstFailure(r, 1)
        IN /\ Len(newResults[i]) <= 1 /\ Len(startResults[i]) <= 1
           /\ ~Done(i) => outcome[i].state = "Waiting"
           /\ Done(i) =>
                 \/ /\ IsRunning(i)
                    /\ f = 0
                 \/ /\ IsTerminated(i)
                    /\ outcome[i].failed = TRUE
                    /\ f \in 1..6
                    /\ outcome[i].message = r[f].message
                    /\ f <= 5 => startResults[i] = <<>>
                    /\ f <= 4 => newResults[i] = <<>> /\ runtime[i] = None
                    /\ ~Registered(i)

\* both outcomes have been returned: one transition is Running and another
\* one was Terminated by the failure of the sandbox start
TwoOutcomesWitness ==
    \E i, j \in Invocations :
        /\ Done(i) /\ IsRunning(i)
        /\ Done(j) /\ IsTerminated(j) /\ startResults[j] = <<FALSE>>

\* C3: registry race safety.  Whatever the interleaving of sibling
\* transitions, the entry of a pod is created at most once, by the first
\* invocation to register, that entry is there from then on, and the handle
\* of every invocation that registered stays in its handle set under its
\* container key: once all sibling transitions that passed start returned,
\* the set holds exactly their keys.
RegistryRaceSafety ==
    \A p \in Pods :
        /\ Len(created[p]) <= 1
        /\ registered[p] # <<>> =>
              /\ PodKey(p) \in DOMAIN handles
              /\ created[p] = <<registered[p][1]>>
        /\ \A i \in Invocations :
              InvPod(i) = p /\ Done(i) /\ IsRunning(i) => Registered(i)
        /\ (\A i \in Invocations : InvPod(i) = p => Done(i)) /\ registered[p] # <<>> =>
              DOMAIN handles[PodKey(p)].container_handles
                 = {ContainerKey(i) : i \in {j \in Invocations :
                                                InvPod(j) = p /\ startResults[j] = <<TRUE>>}}

\* two sibling containers passed start and both registered, the one invoked
\* later first
RegistryRaceWitness ==
    \E i, j \in Invocations :
        /\ i < j
        /\ InvPod(i) = InvPod(j)
        /\ registered[InvPod(i)] = <<j, i>>
        /\ Done(i) /\ IsRunning(i)
        /\ Done(j) /\ IsRunning(j)

\* C4: resource handoff removes both entries in one critical section.  Once
\* an invocation that found the bytecode entry of its container has released
\* the run_context write guard, neither the bytecode map nor the
\* environment-override map holds the key of the container, whatever the
\* outcome; each of the two entries is removed at most once.
HandoffRemovesBoth ==
    /\ \A pn \in PodContainers : Len(consumed[pn]) <= 1 /\ Len(envTaken[pn]) <= 1
    /\ \A i \in Invocations :
          Took(i) /\ rcWriter[InvPod(i)] # i =>
              /\ InvName(i) \notin DOMAIN modules[InvPod(i)]
              /\ InvName(i) \notin DOMAIN env_vars[InvPod(i)]

\* C5: atomic volume mapping.  When a volume mount of the container does not
\* resolve (the volume is not in the volume map or has no host path), the
\* sandbox is never constructed nor started for the invocation, no handle is
\* registered, and the transition, once returned, is Terminated with the
\* error flag set; a mapping handed to the sandbox has the host path of every
\* mount of the container.
AtomicVolumeMapping ==
    \A i \in Invocations :
        /\ ~MountsResolve(i) =>
              /\ newResults[i] = <<>>
              /\ startResults[i] = <<>>
              /\ runtime[i] = None
              /\ ~Registered(i)
              /\ Done(i) => IsTerminated(i) /\ outcome[i].failed = TRUE
        /\ runtime[i] # None =>
              \A k \in DOMAIN Manifest(InvPod(i), InvName(i)).volume_mounts :
                  LET vm == Manifest(InvPod(i), InvName(i)).volume_mounts[k]
                  IN Unwrap(volumes[InvPod(i)][vm.name].path)
                        \in DOMAIN Unwrap(runtime[i]).dirs

\* an invocation took the bytecode, its first mount resolved, its second did
\* not, and it returned Terminated with the volume message
AtomicVolumeWitness ==
    \E i \in Invocations :
        /\ Done(i) /\ Took(i) /\ ~MountsResolve(i)
        /\ IsTerminated(i)
        /\ VolumeMapFailed \in Range(outcome[i].message)

\* a list-of-strings encoding: brackets around strings separated by commas
IsListOfStrings(t) ==
    /\ Len(t) >= 2
    /\ t[1] = "[" /\ t[Len(t)] = "]"
    /\ Len(t) = 2 \/ Len(t) % 2 = 1
    /\ \A k \in 2..(Len(t) - 1) : IF k % 2 = 0 THEN t[k] \in Domains ELSE t[k] = ","

\* a base-10 integer: decimal digits after an optional sign
IsBase10Integer(t) ==
    LET d == IF Len(t) >= 1 /\ t[1] \in {"+", "-"} THEN 2 ELSE 1
    IN /\ Len(t) >= d
       /\ \A k \in d..Len(t) : t[k] \in Digits

MalformedAllowedDomains(p) ==
    /\ ALLOWED_DOMAINS_ANNOTATION_KEY \in DOMAIN annotations[p]
    /\ ~IsListOfStrings(annotations[p][ALLOWED_DOMAINS_ANNOTATION_KEY])

MalformedMaxConcurrentRequests(p) ==
    /\ MAX_CONNCURRENT_REQUESTS_ANNOTATION_KEY \in DOMAIN annotations[p]
    /\ ~IsBase10Integer(annotations[p][MAX_CONNCURRENT_REQUESTS_ANNOTATION_KEY])

\* C6: malformed annotation rejection.  When the allowed-domains annotation
\* of the pod is present and no list of strings, or its
\* max-concurrent-requests annotation is present and no base-10 integer
\* (either one, whatever the other is), the sandbox is never constructed nor
\* started for the invocation, no handle is registered, and the transition,
\* once returned, is Terminated with the error flag set.
MalformedAnnotationRejection ==
    \A i \in Invocations :
        MalformedAllowedDomains(InvPod(i)) \/ MalformedMaxConcurrentRequests(InvPod(i)) =>
            /\ newResults[i] = <<>>
            /\ startResults[i] = <<>>
            /\ runtime[i] = None
            /\ container_handle[i] = None
            /\ ~Registered(i)
            /\ Done(i) => IsTerminated(i) /\ outcome[i].failed = TRUE

\* the max-concurrent-requests annotation alone is malformed and ended a
\* transition that had passed handoff and volume resolution
MalformedAnnotationWitness ==
    \E i \in Invocations :
        /\ ~MalformedAllowedDomains(InvPod(i))
        /\ MalformedMaxConcurrentRequests(InvPod(i))
        /\ Took(i) /\ MountsResolve(i)
        /\ Done(i) /\ IsTerminated(i)
        /\ MAX_CONNCURRENT_REQUESTS_ANNOTATION_KEY \in Range(outcome[i].message)

FailurePhrases ==
    {ModuleDataMissing, VolumeMapFailed, AnnotationParseFailed, ConstructFailed, StartFailed}

\* C7: the message of every Terminated the transition returns names the pod,
\* names the container and identifies the failure.
MessageNamesPodAndContainer ==
    \A i \in Invocations :
        IsTerminated(i) =>
            /\ InvPod(i) \in Range(outcome[i].message)
            /\ InvName(i) \in Range(outcome[i].message)
            /\ Range(outcome[i].message) \cap FailurePhrases # {}

\* C8: when the transition has returned Running, the handle the sandbox start
\* returned is in the handle set of the pod under the key of the container,
\* and Running holds the receiving end of the bounded channel whose sending
\* end the sandbox was constructed with.
RunningIsRegistered ==
    \A i \in Invocations :
        IsRunning(i) =>
            /\ startResults[i] = <<TRUE>>
            /\ Registered(i)
            /\ runtime[i] # None
            /\ outcome[i].rx # None
            /\ Unwrap(outcome[i].rx).end = "rx"
            /\ Unwrap(runtime[i]).status_sender.end = "tx"
            /\ Unwrap(outcome[i].rx).chan = Unwrap(runtime[i]).status_sender.chan
            /\ Unwrap(outcome[i].rx).capacity = ChannelCapacity

\* two transitions returned Running, each with its own channel
RunningIsRegisteredWitness ==
    \E i, j \in Invocations :
        /\ i # j
        /\ Done(i) /\ IsRunning(i)
        /\ Done(j) /\ IsRunning(j)
        /\ Unwrap(outcome[i].rx).chan # Unwrap(outcome[j].rx).chan

\* the entry of key n in map m, None when there is none
Entry(m, n) == IF n \in DOMAIN m THEN Some(m[n]) ELSE None

\* a step of invocation i leaves alone what belongs to the other containers
\* and to the pod: their bytecode and environment-override entries, the
\* volume map, and every handle registered so far
StepKeepsOthers(i) ==
    /\ \A pn \in PodContainers :
          pn # invoked[i] =>
              /\ Entry(modules'[pn[1]], pn[2]) = Entry(modules[pn[1]], pn[2])
              /\ Entry(env_vars'[pn[1]], pn[2]) = Entry(env_vars[pn[1]], pn[2])
    /\ volumes' = volumes
    /\ \A pk \in DOMAIN handles :
          /\ pk \in DOMAIN handles'
          /\ \A key \in DOMAIN handles[pk].container_handles :
                Entry(handles'[pk].container_handles, key)
                   = Entry(handles[pk].container_handles, key)

\* what the outcome of invocation j depends on: the bytecode entry of its own
\* container at its handoff, the volumes its own mounts name, the annotations
\* of its pod and the results of its own sandbox calls
OwnStepsSucceed(j) ==
    /\ InvName(j) \in DOMAIN InitModules[InvPod(j)]
    /\ ~lateHandoff[j]
    /\ MountsResolve(j)
    /\ ~MalformedAllowedDomains(InvPod(j))
    /\ ~MalformedMaxConcurrentRequests(InvPod(j))
    /\ newResults[j] = <<TRUE>>
    /\ startResults[j] = <<TRUE>>

\* C9: failure isolation.  Every step of a transition, and so every step of
\* one that ends in Terminated, leaves unchanged the bytecode entry and the
\* environment-override entry of every other container, the volume map and
\* every handle already registered; and whether a transition ends in Running
\* is decided by its own container's inputs alone, whatever became of the
\* transitions of its siblings.
FailureIsolation ==
    /\ [][\A i \in Invocations : pc'[i] # pc[i] => StepKeepsOthers(i)]_vars
    /\ [](\A j \in Invocations : Done(j) => (IsRunning(j) <=> OwnStepsSucceed(j)))

\* a transition ended in Terminated after it took its bytecode, and a sibling
\* of the same pod that began its handoff afterwards ended in Running
FailureIsolationWitness ==
    \E i, j \in Invocations :
        /\ InvPod(i) = InvPod(j)
        /\ InvName(i) # InvName(j)
        /\ Done(i) /\ IsTerminated(i) /\ Took(i)
        /\ Done(j) /\ IsRunning(j)
        /\ InvName(i) \in DOMAIN env_vars[InvPod(i)] \/ newResults[i] # <<>>

(***************************************************************************)
(* Scheduling: a task that can take a step is polled until it takes it:   *)
(* the sandbox calls return, and a lock that stays free is granted to a    *)
(* task waiting for it.  Weak fairness is all that is assumed; the queue   *)
(* of tokio::sync::RwLock guarantees more.                                 *)
(***************************************************************************)
\* the steps of invocation i that wait for nothing
Proceed(i) ==
    \/ Latest(i)
    \/ ProviderStateRead(i)
    \/ Handoff(i)
    \/ EnvAndConfig(i)
    \/ Construct(i)
    \/ Start(i)
    \/ HandlesEntry(i)
    \/ InsertContainerHandle(i)

\* the steps of invocation i that wait for a lock
Acquire(i) ==
    \/ SharedRead(i)
    \/ RunContextWrite(i)
    \/ SharedWrite(i)
    \/ HandlesWrite(i)

Fairness == \A i \in Invocations : WF_vars(Proceed(i) \/ Acquire(i))

\* for the annotations, one state for each way they end or do not end the
\* transition: none set, or both set, each of them well-formed or malformed
LiveAnnotationStates ==
    {a \in AnnotationStates :
        \A k \in DOMAIN a :
            a[k] \in {<<"[", "a.com", ",", "b.org", "]">>, <<"a.com">>, <<"1", "0">>, <<"t", "e", "n">>}
        /\ (DOMAIN a = {} \/ Cardinality(DOMAIN a) = 2)}

LiveInit == InitWith(LiveAnnotationStates) /\ resolver = NoCall

LiveSpec == LiveInit /\ [][Next]_vars /\ Fairness

\* C10: run to completion.  Under fair scheduling every invocation of the
\* transition eventually has returned, with Running or with Terminated, and
\* stays so; none waits for ever for the run_context lock, the shared state
\* lock or the handles lock.
RunToCompletion ==
    \A i \in Invocations :
        <>[](Done(i) /\ outcome[i].state \in {"Running", "Terminated"})

\* transitions of two pods hold and wait for locks at once: one holds the
\* run_context write guard of its pod, a sibling waits for that guard, and a
\* transition of another pod holds the shared and the handles write guards
RunToCompletionWitness ==
    \E i, j, k \in Invocations :
        /\ pc[i] = "handoff" /\ rcWriter[InvPod(i)] = i
        /\ pc[j] = "run_context" /\ InvPod(j) = InvPod(i)
        /\ pc[k] = "entry" /\ sharedWriter = k /\ handlesWriter = k
        /\ InvPod(k) # InvPod(i)

(***************************************************************************)
(* volume_path_map on its own: the function applied to a container and a   *)
(* volume map drawn from all those of the bounds                           *)
(***************************************************************************)
MaxMounts == 2

VolumeNames == {"data", "cache"}

HostPathOf(n) == IF n = "data" THEN HostData ELSE HostCache

\* a volume mount of a container manifest
MountChoices ==
    {[name |-> n, mount_path |-> mp, sub_path |-> sp] :
        n \in VolumeNames,
        mp \in {Path(TRUE, <<"data">>), Path(TRUE, <<"cache">>)},
        sp \in {None, Some(Path(FALSE, <<"sub">>))}}

\* container.volume_mounts()
MountLists == UNION {[1..n -> MountChoices] : n \in 0..MaxMounts}

\* run_context.volumes: each volume absent, not yet mounted, or mounted
VolumeMaps ==
    {[n \in S |-> [path |-> IF n \in M THEN Some(HostPathOf(n)) ELSE None]] :
        S \in SUBSET VolumeNames, M \in SUBSET VolumeNames}

ResolverInit ==
    /\ InitWith({EmptyMap})
    /\ \E ms \in MountLists, v \in VolumeMaps :
          resolver = [container |-> Some([name |-> "c1", args |-> <<>>, volume_mounts |-> ms]),
                      volumes |-> Some(v),
                      result |-> None]

\* volume_path_map(&container, &run_context.volumes)
Resolve ==
    /\ resolver.container # None
    /\ resolver.result = None
    /\ resolver' = [resolver EXCEPT !.result =
                       Some(volume_path_map(Unwrap(resolver.container),
                                            Unwrap(resolver.volumes)))]
    /\ UNCHANGED <<steps, revision, invoked, pc, container, local, outcome, modules, env_vars, volumes,
                   annotations, handles, sharedReaders, sharedWriter, handlesWriter,
                   rcWriter, runtime, container_handle, newResults, startResults,
                   lateHandoff, consumed, envTaken, created, registered>>

ResolverSpec == ResolverInit /\ [][Resolve]_vars

\* the mount names a volume of the map that has a host path
Resolves(vm, v) == vm.name \in DOMAIN v /\ v[vm.name].path # None

\* the mount path followed by the sub-path, if there is one
GuestPath(vm) ==
    IF vm.sub_path = None
    THEN vm.mount_path
    ELSE Path(vm.mount_path.abs, vm.mount_path.comps \o Unwrap(vm.sub_path).comps)

\* C11: volume resolver result.  When every mount of the container resolves,
\* the call succeeds and its mapping has, for every mount, an entry from the
\* host path of the volume the mount names to the mount path joined with the
\* sub-path; when some mount does not resolve, the call fails, with the
\* volume-not-declared error of a mount whose volume is not in the map or the
\* volume-not-ready error of a mount whose volume has no host path.
VolumeResolverResult ==
    resolver.result # None =>
        LET c == Unwrap(resolver.container)
            v == Unwrap(resolver.volumes)
            r == Unwrap(resolver.result)
            ms == c.volume_mounts
        IN IF \A k \in DOMAIN ms : Resolves(ms[k], v)
           THEN /\ r.ok
                /\ \A k \in DOMAIN ms :
                      /\ Unwrap(v[ms[k].name].path) \in DOMAIN r.val
                      /\ r.val[Unwrap(v[ms[k].name].path)] = Some(GuestPath(ms[k]))
           ELSE /\ ~r.ok
                /\ \E k \in DOMAIN ms :
                      /\ ~Resolves(ms[k], v)
                      /\ IF ms[k].name \notin DOMAIN v
                         THEN r.err = <<"no volume with the name of", ms[k].name,
                                        "found for container", c.name>>
                         ELSE r.err = <<"Volume", ms[k].name, "has not been mounted yet">>

\* the same, for the containers that mount no volume twice
VolumeResolverResultDistinct ==
    resolver.result # None
    /\ (\A j, k \in DOMAIN Unwrap(resolver.container).volume_mounts :
           j # k => Unwrap(resolver.container).volume_mounts[j].name
                       # Unwrap(resolver.container).volume_mounts[k].name)
    => VolumeResolverResult

\* the strings of a list-of-strings encoding
ListValue(t) == SelectSeq(t, LAMBDA x : x \in Domains)

\* the number a string of decimal digits, after an optional +, denotes
RECURSIVE DecimalValue(_)
DecimalValue(t) ==
    IF Len(t) = 0 \/ t = <<"+">>
    THEN 0
    ELSE DecimalValue(SubSeq(t, 1, Len(t) - 1)) * 10 + DigitVal(t[Len(t)])

\* a non-negative base-10 integer
IsNonNegativeInteger(t) ==
    LET d == IF Len(t) >= 1 /\ t[1] = "+" THEN 2 ELSE 1
    IN /\ Len(t) >= d
       /\ \A k \in d..Len(t) : t[k] \in Digits

\* each annotation of the pod is absent or well-formed
AnnotationsWellFormed(p) ==
    /\ ALLOWED_DOMAINS_ANNOTATION_KEY \in DOMAIN annotations[p] =>
          IsListOfStrings(annotations[p][ALLOWED_DOMAINS_ANNOTATION_KEY])
    /\ MAX_CONNCURRENT_REQUESTS_ANNOTATION_KEY \in DOMAIN annotations[p] =>
          IsNonNegativeInteger(annotations[p][MAX_CONNCURRENT_REQUESTS_ANNOTATION_KEY])

\* C12: annotation override independence.  With the annotations of the pod
\* well-formed, whichever of the two are set, a transition that passed
\* handoff and volume resolution hands a configuration to the sandbox; and in
\* every configuration handed to the sandbox each field is the value of its
\* own annotation if that one is set and absent (the default) if it is not,
\* whatever the other annotation is.
AnnotationOverrideIndependence ==
    \A i \in Invocations :
        LET a == annotations[InvPod(i)]
        IN /\ Done(i) /\ Took(i) /\ MountsResolve(i) /\ AnnotationsWellFormed(InvPod(i))
                => runtime[i] # None
           /\ runtime[i] # None =>
                 /\ Unwrap(runtime[i]).http_config.allowed_domains =
                       IF ALLOWED_DOMAINS_ANNOTATION_KEY \in DOMAIN a
                       THEN Some(ListValue(a[ALLOWED_DOMAINS_ANNOTATION_KEY]))
                       ELSE None
                 /\ Unwrap(runtime[i]).http_config.max_concurrent_requests =
                       IF MAX_CONNCURRENT_REQUESTS_ANNOTATION_KEY \in DOMAIN a
                       THEN Some(DecimalValue(a[MAX_CONNCURRENT_REQUESTS_ANNOTATION_KEY]))
                       ELSE None

\* a sandbox of a pod with both annotations set was handed both values, and
\* a sandbox of a pod with no annotation was handed the default
AnnotationOverrideWitness ==
    \E i, j \in Invocations :
        /\ DOMAIN annotations[InvPod(i)] =
              {ALLOWED_DOMAINS_ANNOTATION_KEY, MAX_CONNCURRENT_REQUESTS_ANNOTATION_KEY}
        /\ runtime[i] # None
        /\ Unwrap(runtime[i]).http_config.allowed_domains = Some(<<"a.com", "b.org">>)
        /\ Unwrap(runtime[i]).http_config.max_concurrent_requests = Some(10)
        /\ DOMAIN annotations[InvPod(j)] = {}
        /\ runtime[j] # None
        /\ Unwrap(runtime[j]).http_config = WasiHttpConfigDefault

\* the environment overrides the run context held for the container of
\* invocation i when the transitions were invoked, empty if it held none
Overrides(i) ==
    IF InvName(i) \in DOMAIN InitEnvVars[InvPod(i)]
    THEN InitEnvVars[InvPod(i)][InvName(i)]
    ELSE EmptyMap

\* C13: environment precedence.  The environment handed to the sandbox has
\* the keys of the base environment and of the overrides handed off; a key of
\* the overrides has the value of the overrides, also when the base
\* environment has it too, any other key has its value of the base
\* environment, and a container without an override entry gets the base
\* environment.
EnvironmentPrecedence ==
    \A i \in Invocations :
        runtime[i] # None =>
            LET env == Unwrap(runtime[i]).env
                base == BaseEnv(InvPod(i), InvName(i))
            IN /\ DOMAIN env = DOMAIN base \cup DOMAIN Overrides(i)
               /\ \A k \in DOMAIN Overrides(i) : env[k] = Overrides(i)[k]
               /\ \A k \in DOMAIN base \ DOMAIN Overrides(i) : env[k] = base[k]

\* a sandbox was handed an environment with a key of both, a key of the base
\* environment alone and a key of the overrides alone, and another sandbox,
\* of a container without an override entry, the base environment
EnvironmentPrecedenceWitness ==
    \E i, j \in Invocations :
        /\ runtime[i] # None
        /\ DOMAIN Overrides(i) \cap DOMAIN BaseEnv(InvPod(i), InvName(i)) # {}
        /\ DOMAIN Overrides(i) \ DOMAIN BaseEnv(InvPod(i), InvName(i)) # {}
        /\ DOMAIN BaseEnv(InvPod(i), InvName(i)) \ DOMAIN Overrides(i) # {}
        /\ runtime[j] # None
        /\ InvName(j) \notin DOMAIN InitEnvVars[InvPod(j)]
        /\ Unwrap(runtime[j]).env = BaseEnv(InvPod(j), InvName(j))

(***************************************************************************)
(* The pod spec updated while the transitions run                          *)
(***************************************************************************)
MaxRevision == 2

\* the pod spec of p is updated: the manifests of its containers have a new
\* latest revision
PodUpdated(p) ==
    /\ revision[p] < MaxRevision
    /\ revision' = [revision EXCEPT ![p] = @ + 1]
    /\ UNCHANGED <<invoked, pc, container, local, outcome, modules, env_vars, volumes,
                   annotations, handles, sharedReaders, sharedWriter, handlesWriter,
                   rcWriter, runtime, container_handle, newResults, startResults,
                   lateHandoff, consumed, envTaken, created, registered, resolver,
                   steps>>

\* the transitions invoked for the containers of two pods, whose volumes are
\* mounted and which have no annotations
RevisionInit ==
    /\ InitWith({EmptyMap})
    /\ resolver = NoCall
    /\ volumes["p1"] = Mounted
    /\ \E i \in Invocations : InvPod(i) = "p2"

\* the pod whose spec is updated while the transitions run
UpdatedPods == {"p1"}

RevisionNext == Next \/ \E p \in UpdatedPods : PodUpdated(p)

RevisionSpec == RevisionInit /\ [][RevisionNext]_vars

\* the host paths of the volumes the mounts of container c name
MountedHostPaths(c, v) ==
    {Unwrap(v[c.volume_mounts[k].name].path) : k \in DOMAIN c.volume_mounts}

\* C14: latest manifest revision.  The container a transition works on is
\* the one of the latest revision of the pod spec at the moment it is
\* invoked, whatever updates came before, and it stays the same to the end of
\* the transition: the name and the arguments handed to the sandbox, the
\* volume mounts resolved and the container a failure message names are
\* those of that one revision, also when the pod spec is updated meanwhile.
LatestManifestRevision ==
    /\ [][\A i \in Invocations :
            /\ container[i] = None /\ container'[i] # None =>
                  container'[i] = Some(Revised(Manifest(InvPod(i), InvName(i)),
                                               revision[InvPod(i)]))
            /\ container[i] # None => container'[i] = container[i]]_vars
    /\ [](\A i \in Invocations :
            /\ runtime[i] # None =>
                  /\ Unwrap(runtime[i]).args = Unwrap(container[i]).args
                  /\ Unwrap(runtime[i]).name =
                        <<"default", ":", InvPod(i), ":", Unwrap(container[i]).name>>
                  /\ DOMAIN Unwrap(runtime[i]).dirs =
                        MountedHostPaths(Unwrap(container[i]), volumes[InvPod(i)])
            /\ IsTerminated(i) => Unwrap(container[i]).name \in Range(outcome[i].message))

\* a sandbox was constructed with the arguments of the revision that was the
\* latest when its transition was invoked, which an update had made, and the
\* pod spec was updated again since
LatestManifestWitness ==
    \E i \in Invocations :
        /\ runtime[i] # None
        /\ Unwrap(runtime[i]).args = Revised(Manifest(InvPod(i), InvName(i)), 1).args
        /\ revision[InvPod(i)] > 1

(***************************************************************************)
(* The order of the steps                                                  *)
(***************************************************************************)
\* the step an operation of the body belongs to, the steps numbered in the
\* order Resource Handoff, Volume Resolver, Runtime Configuration Builder,
\* Sandbox Activator, Handle Registry
StepOf(op) ==
    CASE op \in {"modules.remove", "env_vars.remove"} -> 1
      [] op = "volume_path_map" -> 2
      [] op = "http_config" -> 3
      [] op \in {"new", "start"} -> 4
      [] op \in {"entry", "insert_container_handle"} -> 5

\* the operations in the order the body has them
OrderInBody ==
    <<"modules.remove", "volume_path_map", "env_vars.remove", "http_config", "new",
      "start", "entry", "insert_container_handle">>

IsPrefix(s, t) == Len(s) <= Len(t) /\ SubSeq(t, 1, Len(s)) = s

\* C15: step ordering.  The operations a transition has run are in the order
\* of the steps: Resource Handoff (the removal of the bytecode entry and of
\* the environment-override entry), then Volume Resolver, Runtime
\* Configuration Builder, Sandbox Activator (construct, then start) and
\* Handle Registry.  No operation of an earlier step comes after one of a
\* later step, and the Volume Resolver runs only once both removals are made.
StepOrdering ==
    \A i \in Invocations :
        /\ \A j, k \in DOMAIN steps[i] :
              j < k => StepOf(steps[i][j]) <= StepOf(steps[i][k])
        /\ "volume_path_map" \in Range(steps[i]) =>
              \E j, k \in DOMAIN steps[i] :
                  /\ steps[i][j] = "modules.remove"
                  /\ steps[i][k] = "env_vars.remove"

\* the order the code has: the operations run are a prefix of the body, so
\* nothing runs after a failure and nothing runs twice, with the volumes
\* resolved between the two removals
StepOrderingOfBody ==
    \A i \in Invocations :
        /\ IsPrefix(steps[i], OrderInBody)
        /\ Done(i) /\ IsTerminated(i) => Len(steps[i]) < Len(OrderInBody)
        /\ IsRunning(i) => steps[i] = OrderInBody

(***************************************************************************)
(* The locks                                                               *)
(***************************************************************************)
\* the invocation holds the write guard of its pod's run context
HoldsRunContext(i) == rcWriter[InvPod(i)] = i

\* the invocation derives the base environment, builds the configuration,
\* constructs or starts the sandbox, or registers the handle
PastHandoff(i) ==
    pc[i] \in {"env", "construct", "starting", "shared_write", "handles_write", "entry",
               "insert"}

\* C16: the write lock of the pod's run context is held for the handoff
\* alone.  A transition holds it only in the block that removes the
\* container's entries, never while it derives the base environment,
\* constructs or starts the sandbox or registers the handle, and not after it
\* returned; so the lock is free for a sibling, or held by a sibling, while
\* this container's sandbox is under construction.
RunContextLockScope ==
    \A i \in Invocations :
        /\ HoldsRunContext(i) => pc[i] = "handoff"
        /\ PastHandoff(i) \/ Done(i) => ~HoldsRunContext(i)
        /\ rcWriter[InvPod(i)] # 0 => InvPod(rcWriter[InvPod(i)]) = InvPod(i)

\* a sandbox is under construction while a sibling container of the pod
\* holds the run context lock, in its handoff
RunContextLockWitness ==
    \E i, j \in Invocations :
        /\ pc[i] = "construct"
        /\ InvPod(j) = InvPod(i) /\ InvName(j) # InvName(i)
        /\ HoldsRunContext(j)
        /\ consumed[invoked[i]] = <<i>>

(***************************************************************************)
(* The order of the annotation errors                                      *)
(***************************************************************************)
\* the transition returned Terminated with the message of an annotation that
\* did not parse, naming key
AnnotationErrorOf(i, key) ==
    /\ Done(i)
    /\ IsTerminated(i)
    /\ Len(outcome[i].message) >= 2
    /\ outcome[i].message[1] = AnnotationParseFailed
    /\ outcome[i].message[2] = key

\* C17: deterministic annotation error order.  When the allowed-domains and
\* the max-concurrent-requests annotations of the pod are both present and
\* malformed, a transition that got as far as the annotations is Terminated
\* with the message naming the allowed-domains key; a message naming the
\* max-concurrent-requests key is returned only when the allowed-domains
\* annotation is absent or well-formed.
AnnotationErrorOrder ==
    \A i \in Invocations :
        LET p == InvPod(i)
        IN /\ /\ Done(i) /\ Took(i) /\ MountsResolve(i)
              /\ MalformedAllowedDomains(p) /\ MalformedMaxConcurrentRequests(p)
              => AnnotationErrorOf(i, ALLOWED_DOMAINS_ANNOTATION_KEY)
           /\ AnnotationErrorOf(i, MAX_CONNCURRENT_REQUESTS_ANNOTATION_KEY) =>
                 /\ ~MalformedAllowedDomains(p)
                 /\ MAX_CONNCURRENT_REQUESTS_ANNOTATION_KEY \in DOMAIN annotations[p]

\* both annotations of the pod are malformed and a transition returned the
\* allowed-domains error
AnnotationErrorOrderWitness ==
    \E i \in Invocations :
        /\ MalformedAllowedDomains(InvPod(i))
        /\ MalformedMaxConcurrentRequests(InvPod(i))
        /\ AnnotationErrorOf(i, ALLOWED_DOMAINS_ANNOTATION_KEY)

(***************************************************************************)
(* Lock discipline                                                         *)
(***************************************************************************)
\* the invocation holds a guard, read or write, of the provider's shared state
HoldsShared(i) == i \in sharedReaders \/ sharedWriter = i

\* the invocation has not returned and can take no step: it waits for a lock
Blocked(i) == ~Done(i) /\ ~ENABLED (Proceed(i) \/ Acquire(i))

\* the invocations that hold the lock invocation i requests
HoldersOfRequested(i) ==
    CASE pc[i] = "read_shared" -> {j \in Invocations : sharedWriter = j}
      [] pc[i] = "run_context" -> {j \in Invocations : rcWriter[InvPod(i)] = j}
      [] pc[i] = "shared_write" -> {j \in Invocations : HoldsShared(j)}
      [] pc[i] = "handles_write" -> {j \in Invocations : handlesWriter = j}
      [] OTHER -> {}

\* C18: lock discipline.  No transition holds the run-context lock of its
\* pod and a guard of the provider's shared state at once: it requests the
\* run-context lock holding no shared guard, requests the shared write lock
\* holding neither the run-context lock nor a shared read guard, and requests
\* and holds the handles lock only under the shared write guard.  Hence a
\* transition that waits for a lock waits for transitions that are not
\* waiting themselves: no set of transitions, of one pod or of several, wait
\* for each other.
LockDiscipline ==
    \A i \in Invocations :
        /\ ~(HoldsRunContext(i) /\ HoldsShared(i))
        /\ pc[i] = "run_context" => ~HoldsShared(i)
        /\ pc[i] = "shared_write" => ~HoldsRunContext(i) /\ ~HoldsShared(i)
        /\ pc[i] = "handles_write" => sharedWriter = i
        /\ handlesWriter = i => sharedWriter = i
        /\ Blocked(i) =>
              /\ HoldersOfRequested(i) # {}
              /\ \A j \in HoldersOfRequested(i) : j # i /\ ~Blocked(j)

\* a transition waits for the shared state, which a transition of another
\* pod holds for writing together with the handles lock, while a third
\* transition holds the run-context lock of its pod
LockDisciplineWitness ==
    \E i, j, k \in Invocations :
        /\ Blocked(i) /\ pc[i] = "read_shared"
        /\ sharedWriter = j /\ handlesWriter = j /\ InvPod(j) # InvPod(i)
        /\ HoldsRunContext(k)

(***************************************************************************)
(* Soundness of the handle registry                                        *)
(***************************************************************************)
\* the sandbox of invocation i was started, once, and the start succeeded
StartSucceeded(i) == startResults[i] = <<TRUE>>

\* the container handles registered for pod p
ContainerHandlesOf(p) ==
    IF PodKey(p) \in DOMAIN handles THEN handles[PodKey(p)].container_handles ELSE EmptyMap

\* C19: registry soundness.  A transition that ends in Terminated has not
\* touched the handle registry: it created no pod entry and inserted no
\* handle.  In every state a handle is in the registry under container key K
\* of pod P only if it is the handle a transition for K of P got from a
\* successful sandbox start, and P has an entry only if the sandbox of one of
\* its containers was started successfully.
RegistrySoundness ==
    /\ \A i \in Invocations :
          IsTerminated(i) =>
              /\ i \notin Range(created[InvPod(i)])
              /\ i \notin Range(registered[InvPod(i)])
              /\ \A p \in Pods : \A key \in DOMAIN ContainerHandlesOf(p) :
                    ContainerHandlesOf(p)[key].started_by # i
    /\ \A p \in Pods :
          /\ \A key \in DOMAIN ContainerHandlesOf(p) :
                \E i \in Invocations :
                    /\ InvPod(i) = p
                    /\ ContainerKey(i) = key
                    /\ StartSucceeded(i)
                    /\ Some(ContainerHandlesOf(p)[key]) = container_handle[i]
          /\ PodKey(p) \in DOMAIN handles =>
                \E i \in Invocations : InvPod(i) = p /\ StartSucceeded(i)
          /\ \A i \in Range(created[p]) \cup Range(registered[p]) :
                InvPod(i) = p /\ StartSucceeded(i)
    /\ DOMAIN handles \subseteq {PodKey(p) : p \in Pods}

\* the start of a container's sandbox failed and its transition returned
\* Terminated, in a pod that has an entry with the handle of a sibling and
\* none under the key of the failed container
RegistrySoundnessWitness ==
    \E i, j \in Invocations :
        /\ Done(i) /\ IsTerminated(i) /\ startResults[i] = <<FALSE>>
        /\ InvPod(j) = InvPod(i)
        /\ Registered(j)
        /\ ContainerKey(i) \notin DOMAIN ContainerHandlesOf(InvPod(i))

====
